---- MODULE Spec2Model ----
(***************************************************************************)
(* Investment Waterfall Calculator (src/app.py).                           *)
(*                                                                         *)
(* The script computes every amount in Python floats (IEEE-754 binary64,   *)
(* round to nearest, ties to even).  The model keeps that arithmetic: a    *)
(* number is a record [sign, mant, exp] standing for                       *)
(*        (-1)^sign * mant * 2^exp,   2^52 <= mant < 2^53  (or zero),      *)
(* and mant is a natural number written in base 2^15, least significant    *)
(* limb first.  Python ints (all below 2^53 here) convert exactly.         *)
(***************************************************************************)
EXTENDS Integers, Sequences, FiniteSets

(***************************************************************************)
(* Natural numbers of arbitrary size: sequences of base-2^15 limbs,        *)
(* least significant first, no zero limb at the top; << >> is zero.        *)
(***************************************************************************)
B == 32768
LimbBits == 15
MantBits == 53

RECURSIVE BNorm(_)
BNorm(a) ==
    IF a = << >> THEN << >>
    ELSE IF a[Len(a)] = 0 THEN BNorm(SubSeq(a, 1, Len(a) - 1))
    ELSE a

RECURSIVE BCmpFrom(_, _, _)
BCmpFrom(a, b, i) ==
    IF i = 0 THEN 0
    ELSE IF a[i] < b[i] THEN -1
    ELSE IF a[i] > b[i] THEN 1
    ELSE BCmpFrom(a, b, i - 1)

\* -1, 0, 1 as a < b, a = b, a > b
BCmp(a, b) ==
    IF Len(a) < Len(b) THEN -1
    ELSE IF Len(a) > Len(b) THEN 1
    ELSE BCmpFrom(a, b, Len(a))

Limb(a, i) == IF i <= Len(a) THEN a[i] ELSE 0

RECURSIVE BAddFrom(_, _, _, _)
BAddFrom(a, b, i, carry) ==
    IF i > Len(a) /\ i > Len(b)
    THEN IF carry = 0 THEN << >> ELSE << carry >>
    ELSE LET s == Limb(a, i) + Limb(b, i) + carry
         IN  << s % B >> \o BAddFrom(a, b, i + 1, s \div B)

BAdd(a, b) == BAddFrom(a, b, 1, 0)

RECURSIVE BSubFrom(_, _, _, _)
BSubFrom(a, b, i, borrow) ==
    IF i > Len(a) THEN << >>
    ELSE LET d == a[i] - Limb(b, i) - borrow
         IN  IF d < 0 THEN << d + B >> \o BSubFrom(a, b, i + 1, 1)
             ELSE << d >> \o BSubFrom(a, b, i + 1, 0)

\* a - b, for a >= b
BSub(a, b) == BNorm(BSubFrom(a, b, 1, 0))

RECURSIVE BMulSmallFrom(_, _, _, _)
BMulSmallFrom(a, k, i, carry) ==
    IF i > Len(a)
    THEN IF carry = 0 THEN << >> ELSE << carry >>
    ELSE LET p == a[i] * k + carry
         IN  << p % B >> \o BMulSmallFrom(a, k, i + 1, p \div B)

\* a * k, for 0 <= k < B
BMulSmall(a, k) == IF k = 0 THEN << >> ELSE BMulSmallFrom(a, k, 1, 0)

Zeros(n) == [i \in 1..n |-> 0]

\* a * B^n
BShiftLimbs(a, n) == IF a = << >> THEN << >> ELSE Zeros(n) \o a

\* hi * B + lo
BMulAcc(hi, lo) == IF hi = << >> THEN lo ELSE BAdd(<< 0 >> \o hi, lo)

\* a times the number made of the limbs i..Len(b) of b
RECURSIVE BMulFrom(_, _, _)
BMulFrom(a, b, i) ==
    IF i > Len(b) THEN << >>
    ELSE BMulAcc(BMulFrom(a, b, i + 1), BMulSmall(a, b[i]))

BMul(a, b) == BMulFrom(a, b, 1)

\* a * 2^k
BShl(a, k) == BShiftLimbs(BMulSmall(a, 2 ^ (k % LimbBits)), k \div LimbBits)

\* floor(a / 2^k)
BShr(a, k) ==
    LET q == k \div LimbBits
        r == k % LimbBits
        n == Len(a) - q
    IN  IF n <= 0 THEN << >>
        ELSE BNorm([i \in 1..n |->
                 (a[i + q] \div (2 ^ r))
                 + (Limb(a, i + q + 1) % (2 ^ r)) * (2 ^ (LimbBits - r))])

\* number of binary digits of a limb
IntBits(n) == Cardinality({i \in 0..(LimbBits - 1) : 2 ^ i <= n})

\* number of binary digits of a
BBitLen(a) ==
    IF a = << >> THEN 0 ELSE LimbBits * (Len(a) - 1) + IntBits(a[Len(a)])

RECURSIVE BFromInt(_)
BFromInt(n) == IF n = 0 THEN << >> ELSE << n % B >> \o BFromInt(n \div B)

BIsOdd(a) == a # << >> /\ a[1] % 2 = 1

(***************************************************************************)
(* Long division u / v for a divisor v whose top limb is >= B/2: one       *)
(* quotient limb per dividend limb, each estimated from the two top limbs  *)
(* of the running remainder and corrected downwards.                       *)
(***************************************************************************)
RECURSIVE BFixDigit(_, _, _)
BFixDigit(rem, v, q) ==
    IF BCmp(BMulSmall(v, q), rem) = 1 THEN BFixDigit(rem, v, q - 1) ELSE q

\* the largest q with q*v <= rem, for rem < B*v
BDigit(rem, v) ==
    IF Len(rem) < Len(v) THEN 0
    ELSE IF (Limb(rem, Len(v) + 1) * B + rem[Len(v)]) \div v[Len(v)] > B - 1
    THEN BFixDigit(rem, v, B - 1)
    ELSE BFixDigit(rem, v,
             (Limb(rem, Len(v) + 1) * B + rem[Len(v)]) \div v[Len(v)])

\* d + B*a
BPush(d, a) == IF a = << >> /\ d = 0 THEN << >> ELSE << d >> \o a

\* the quotient q of the limbs above with the digit d of the running
\* remainder r1 below it, and the remainder left
BDivEmit(v, q, r1, d) ==
    IF d = 0 THEN [q |-> BPush(0, q), r |-> r1]
    ELSE [q |-> BPush(d, q), r |-> BSub(r1, BMulSmall(v, d))]

\* One step of the division: the quotient and remainder of the limbs above,
\* then the next limb of the dividend brought down.
BDivStep(limb, v, up) ==
    IF up.r = << >>
    THEN BDivEmit(v, up.q, BPush(limb, << >>), BDigit(BPush(limb, << >>), v))
    ELSE BDivEmit(v, up.q, << limb >> \o up.r, BDigit(<< limb >> \o up.r, v))

\* [q, r] with q*v + r = the number made of the limbs i..Len(u) of u, 0 <= r < v;
\* the top Len(v) - 1 limbs of u are the first running remainder
RECURSIVE BDivFrom(_, _, _)
BDivFrom(u, v, i) ==
    IF i > Len(u) - Len(v) + 1
    THEN [q |-> << >>, r |-> IF i > Len(u) THEN << >> ELSE BNorm(SubSeq(u, i, Len(u)))]
    ELSE BDivStep(u[i], v, BDivFrom(u, v, i + 1))

BDivMod(u, v) == BDivFrom(u, v, 1)

(***************************************************************************)
(* binary64 values and correctly rounded operations                        *)
(***************************************************************************)
Zero == [sign |-> 0, mant |-> << >>, exp |-> 0]
ZeroDivisionError == [kind |-> "ZeroDivisionError"]

IsZero(x) == x.mant = << >>

\* bit j of a, counted from 0, for j below the length of a
BBit(a, j) == (a[j \div LimbBits + 1] \div (2 ^ (j % LimbBits))) % 2

\* some bit of a below bit j is 1
BAnyBelow(a, j) ==
    \/ a[j \div LimbBits + 1] % (2 ^ (j % LimbBits)) # 0
    \/ \E i \in 1..(j \div LimbBits) : a[i] # 0

\* a mantissa that a carry made one bit too long loses its last bit (a zero)
Renorm(s, q, e) ==
    IF BBitLen(q) > MantBits
    THEN [sign |-> s, mant |-> BShr(q, 1), exp |-> e + 1]
    ELSE [sign |-> s, mant |-> q, exp |-> e]

\* n without its k low bits, rounded up when they are more than half of the
\* last place kept, or exactly half and the last place kept is odd
RoundOff(s, n, e, k) ==
    IF BBit(n, k - 1) = 1 /\ (BAnyBelow(n, k - 1) \/ BBit(n, k) = 1)
    THEN Renorm(s, BAdd(BShr(n, k), << 1 >>), e + k)
    ELSE [sign |-> s, mant |-> BShr(n, k), exp |-> e + k]

\* the binary64 nearest to (-1)^s * n * 2^e, ties to even
Round(s, n, e) ==
    IF n = << >> THEN Zero
    ELSE IF BBitLen(n) <= MantBits
    THEN [sign |-> s, mant |-> BShl(n, MantBits - BBitLen(n)),
          exp |-> e - (MantBits - BBitLen(n))]
    ELSE RoundOff(s, n, e, BBitLen(n) - MantBits)

\* a Python int as a float (exact below 2^53)
FromInt(n) == IF n < 0 THEN Round(1, BFromInt(-n), 0) ELSE Round(0, BFromInt(n), 0)

FNeg(x) == IF IsZero(x) THEN x ELSE [x EXCEPT !.sign = 1 - x.sign]

\* -1, 0, 1 as |x| < |y|, |x| = |y|, |x| > |y|
FCmpAbs(x, y) ==
    IF IsZero(x) THEN (IF IsZero(y) THEN 0 ELSE -1)
    ELSE IF IsZero(y) THEN 1
    ELSE IF x.exp < y.exp THEN -1
    ELSE IF x.exp > y.exp THEN 1
    ELSE BCmp(x.mant, y.mant)

\* -1, 0, 1 as x < y, x = y, x > y
FCmp(x, y) ==
    IF x.sign = 0 /\ y.sign = 0 THEN FCmpAbs(x, y)
    ELSE IF x.sign = 1 /\ y.sign = 1 THEN FCmpAbs(y, x)
    ELSE IF x.sign = 1 THEN -1
    ELSE 1

FLt(x, y) == FCmp(x, y) = -1
FLe(x, y) == FCmp(x, y) # 1
FGe(x, y) == FCmp(x, y) # -1
FGt(x, y) == FCmp(x, y) = 1

\* x * y
FMul(x, y) ==
    IF IsZero(x) \/ IsZero(y) THEN Zero
    ELSE Round((x.sign + y.sign) % 2, BMul(x.mant, y.mant), x.exp + y.exp)

\* x + y
FAdd(x, y) ==
    IF IsZero(x) THEN y
    ELSE IF IsZero(y) THEN x
    ELSE LET e  == IF x.exp < y.exp THEN x.exp ELSE y.exp
             xm == BShl(x.mant, x.exp - e)
             ym == BShl(y.mant, y.exp - e)
             c  == BCmp(xm, ym)
         IN  IF x.sign = y.sign THEN Round(x.sign, BAdd(xm, ym), e)
             ELSE IF c = 0 THEN Zero
             ELSE IF c = 1 THEN Round(x.sign, BSub(xm, ym), e)
             ELSE Round(y.sign, BSub(ym, xm), e)

\* x - y
FSub(x, y) == FAdd(x, FNeg(y))

\* x / y, an error for y = 0: the quotient of the mantissas to 56 or more bits, exact
\* or with a sticky bit below it for the remainder, then rounded once
FDivRound(s, d, e) ==
    IF d.r = << >> THEN Round(s, d.q, e)
    ELSE Round(s, BAdd(BShl(d.q, 1), << 1 >>), e - 1)

FDiv(x, y) ==
    IF IsZero(y) THEN ZeroDivisionError
    ELSE IF IsZero(x) THEN Zero
    ELSE FDivRound((x.sign + y.sign) % 2,
                   BDivMod(BShl(x.mant, 63), BShl(y.mant, 7)),
                   x.exp - y.exp - 56)

\* Python's max(a, b) and min(a, b): the first argument unless the second is
\* strictly greater (smaller)
FMax(a, b) == IF FGt(b, a) THEN b ELSE a
FMin(a, b) == IF FLt(b, a) THEN b ELSE a

\* a decimal literal n/d (d a power of ten), as Python reads it
Dec(n, d) == FDiv(FromInt(n), FromInt(d))

(***************************************************************************)
(* The script                                                              *)
(***************************************************************************)
VARIABLES
    FUND_SIZE,                  \* module constant, dollars (int)
    POST_MONEY_VALUATION,       \* module constant, dollars (int)
    investor_contribution_mm,   \* number_input, float
    holding_period,             \* number_input, int
    sale_price_mm,              \* slider, int
    carve_out_pct,              \* slider, float
    pc,                         \* position of the script run
    results,                    \* results = calculate_waterfall(...)
    r,                          \* loop variable r of the sweep and of the search
    moics, irrs, net_proceeds_list,
    info,                       \* the "Current selection" line
    target_i,                   \* index into thresholds
    scan_i,                     \* index into the search's range of exit values
    threshold_results

vars == << FUND_SIZE, POST_MONEY_VALUATION, investor_contribution_mm,
           holding_period, sale_price_mm, carve_out_pct, pc, results, r,
           moics, irrs, net_proceeds_list, info, target_i, scan_i,
           threshold_results >>

MaxHoldingPeriod == 5
MaxCallYears == 3

Million == 1000000

\* the numeric literals of calculate_waterfall, as Python reads them
CARVE_OUT_LIMIT == FromInt(200000000)
HUNDRED == FromInt(100)
LIQ_PREF_MULTIPLE == FromInt(2)
MANAGEMENT_FEE_RATE == Dec(2, 100)
LP_PROFIT_SHARE == Dec(80, 100)
GP_CARRY == Dec(20, 100)

Unset == [kind |-> "unset"]
Unbound == [kind |-> "unbound"]

(***************************************************************************)
(* numpy_financial.irr on the cash flows the script builds.  irr takes the *)
(* real positive roots x of sum(values[t] * x^t) and returns 1/x - 1, or   *)
(* nan when there is none; the script turns nan into None.  Only the first *)
(* and the last flow can be non-zero here, so a positive root exists       *)
(* exactly when both are non-zero with opposite signs, and the rate is the *)
(* r with (1 + r)^periods = |last| / |first|.  The rate is kept in that    *)
(* form: its sign, the two amounts and the number of periods; every rate   *)
(* equal to 0 is the one value ZeroRate.                                   *)
(***************************************************************************)
None == [kind |-> "None"]
ZeroRate == [kind |-> "rate", sgn |-> 0, invested |-> Zero, returned |-> Zero,
             periods |-> 0, times100 |-> FALSE]

\* the cash flows with one zero per year of the holding period
cash_flows_zero_per_year(investor_contribution, holding_period_, investor_total) ==
    LET n == IF holding_period_ > 0 THEN holding_period_ ELSE 0
    IN  << FNeg(investor_contribution) >> \o [i \in 1..n |-> Zero]
        \o << investor_total >>

\* [-investor_contribution] + [0] * (holding_period - 1) + [investor_total];
\* a list times a number below 1 is the empty list
cash_flows(investor_contribution, holding_period_, investor_total) ==
    LET n == IF holding_period_ > 1 THEN holding_period_ - 1 ELSE 0
    IN  << FNeg(investor_contribution) >> \o [i \in 1..n |-> Zero]
        \o << investor_total >>

irr(values) ==
    LET first == values[1]
        last  == values[Len(values)]
        c     == FCmpAbs(last, first)
    IN  IF IsZero(first) \/ IsZero(last) \/ first.sign = last.sign THEN None
        ELSE IF c = 0 THEN ZeroRate
        ELSE [kind |-> "rate", sgn |-> c, invested |-> FNeg(first) ,
              returned |-> last, periods |-> Len(values) - 1, times100 |-> FALSE]

\* irr * 100
Times100(rate) == IF rate.sgn = 0 THEN rate ELSE [rate EXCEPT !.times100 = TRUE]

(***************************************************************************)
(* calculate_waterfall.  v is the function's local scope: a record of the  *)
(* parameters and of the locals, a local being Unbound until its           *)
(* assignment.  Each operator executes a run of consecutive statements     *)
(* that do not read each other's results and returns the scope after them. *)
(***************************************************************************)
\* lines 122-131 with the comparison of the carve-out turned around
carve_out_above_limit(v) ==
    [v EXCEPT !.fund_ownership_pct = FDiv(v.fund_size, v.post_money_val),
              !.investor_fund_pct = FDiv(v.investor_contribution, v.fund_size),
              !.carve_out_amount =
                  IF FGt(v.sale_price, CARVE_OUT_LIMIT)
                  THEN FMul(v.sale_price, FDiv(v.carve_out_pct, HUNDRED))
                  ELSE Zero]

\* lines 122-131
\*   fund_ownership_pct = fund_size / post_money_val
\*   investor_fund_pct = investor_contribution / fund_size
\*   if sale_price < 200_000_000:
\*       carve_out_amount = sale_price * (carve_out_pct / 100)
\*   else: carve_out_amount = 0
ownership_and_carve_out(v) ==
    [v EXCEPT !.fund_ownership_pct = FDiv(v.fund_size, v.post_money_val),
              !.investor_fund_pct = FDiv(v.investor_contribution, v.fund_size),
              !.carve_out_amount =
                  IF FLt(v.sale_price, CARVE_OUT_LIMIT)
                  THEN FMul(v.sale_price, FDiv(v.carve_out_pct, HUNDRED))
                  ELSE Zero]

\* lines 134-137
\*   net_proceeds = sale_price - carve_out_amount
\*   fund_liq_pref = 2 * fund_size
proceeds_and_liq_pref(v) ==
    [v EXCEPT !.net_proceeds = FSub(v.sale_price, v.carve_out_amount),
              !.fund_liq_pref = FMul(LIQ_PREF_MULTIPLE, v.fund_size)]

\* line 140
\*   fund_pro_rata = fund_ownership_pct * net_proceeds
pro_rata(v) ==
    [v EXCEPT !.fund_pro_rata = FMul(v.fund_ownership_pct, v.net_proceeds)]

\* lines 143-144 with a strict comparison for liq_pref_applies
liq_pref_only_when_greater(v) ==
    [v EXCEPT !.liq_pref_applies = FGt(v.fund_liq_pref, v.fund_pro_rata),
              !.fund_gross_proceeds = FMax(v.fund_liq_pref, v.fund_pro_rata)]

\* lines 143-144
\*   liq_pref_applies = fund_liq_pref >= fund_pro_rata
\*   fund_gross_proceeds = max(fund_liq_pref, fund_pro_rata)
greater_of_liq_pref_or_pro_rata(v) ==
    [v EXCEPT !.liq_pref_applies = FGe(v.fund_liq_pref, v.fund_pro_rata),
              !.fund_gross_proceeds = FMax(v.fund_liq_pref, v.fund_pro_rata)]

\* lines 147-150 without the cap of line 147
fees_without_cap(v) ==
    [v EXCEPT !.total_management_fees =
                  FMul(FMul(v.fund_size, MANAGEMENT_FEE_RATE),
                       FromInt(v.holding_period))]

\* lines 147-150
\*   fund_gross_proceeds = min(fund_gross_proceeds, net_proceeds)
\*   total_management_fees = fund_size * 0.02 * holding_period
cap_and_fees(v) ==
    [v EXCEPT !.fund_gross_proceeds = FMin(v.fund_gross_proceeds, v.net_proceeds),
              !.total_management_fees =
                  FMul(FMul(v.fund_size, MANAGEMENT_FEE_RATE),
                       FromInt(v.holding_period))]

\* line 153
\*   fund_net_proceeds = fund_gross_proceeds - total_management_fees
net_of_fees(v) ==
    [v EXCEPT !.fund_net_proceeds =
                  FSub(v.fund_gross_proceeds, v.total_management_fees)]

\* lines 157-158, the branch fund_net_proceeds >= fund_size
\*   fund_return_of_capital = fund_size
\*   fund_profit = fund_net_proceeds - fund_size
capital_and_profit(v) ==
    [v EXCEPT !.fund_return_of_capital = v.fund_size,
              !.fund_profit = FSub(v.fund_net_proceeds, v.fund_size)]

\* lines 159-160 with the LP's rate used for the carry as well
profit_split_one_rate(v) ==
    [v EXCEPT !.total_lp_profit_share = FMul(v.fund_profit, LP_PROFIT_SHARE),
              !.total_gp_carry = FMul(v.fund_profit, LP_PROFIT_SHARE)]

\* lines 159-160, the same branch
\*   total_lp_profit_share = fund_profit * 0.80
\*   total_gp_carry = fund_profit * 0.20
profit_split(v) ==
    [v EXCEPT !.total_lp_profit_share = FMul(v.fund_profit, LP_PROFIT_SHARE),
              !.total_gp_carry = FMul(v.fund_profit, GP_CARRY)]

\* lines 162-165 without the max of line 162
no_profit_unclamped(v) ==
    [v EXCEPT !.fund_return_of_capital = v.fund_net_proceeds,
              !.fund_profit = Zero,
              !.total_lp_profit_share = Zero,
              !.total_gp_carry = Zero]

\* lines 162-165, the else branch
\*   fund_return_of_capital = max(fund_net_proceeds, 0)
\*   fund_profit = 0; total_lp_profit_share = 0; total_gp_carry = 0
no_profit(v) ==
    [v EXCEPT !.fund_return_of_capital = FMax(v.fund_net_proceeds, Zero),
              !.fund_profit = Zero,
              !.total_lp_profit_share = Zero,
              !.total_gp_carry = Zero]

\* lines 168-172
\*   total_lp_distributions = fund_return_of_capital + total_lp_profit_share
\*   investor_return_of_capital = investor_fund_pct * fund_return_of_capital
\*   investor_profit_share = investor_fund_pct * total_lp_profit_share
lp_distributions(v) ==
    [v EXCEPT !.total_lp_distributions =
                  FAdd(v.fund_return_of_capital, v.total_lp_profit_share),
              !.investor_return_of_capital =
                  FMul(v.investor_fund_pct, v.fund_return_of_capital),
              !.investor_profit_share =
                  FMul(v.investor_fund_pct, v.total_lp_profit_share)]

\* line 173
\*   investor_total = investor_fund_pct * total_lp_distributions
investor_share(v) ==
    [v EXCEPT !.investor_total =
                  FMul(v.investor_fund_pct, v.total_lp_distributions)]

\* lines 176-184
\*   investor_moic = investor_total / investor_contribution
\*                   if investor_contribution > 0 else 0
\*   cash_flows = ...; try: irr = npf.irr(cash_flows), nan becomes None
moic_and_irr(v) ==
    [v EXCEPT !.investor_moic =
                  IF FGt(v.investor_contribution, Zero)
                  THEN FDiv(v.investor_total, v.investor_contribution)
                  ELSE Zero,
              !.irr = irr(cash_flows(v.investor_contribution,
                                     v.holding_period, v.investor_total))]

\* return { ... }
return(v) ==
    [kind |-> "result",
     carve_out_amount |-> v.carve_out_amount,
     net_proceeds |-> v.net_proceeds,
     fund_ownership_pct |-> v.fund_ownership_pct,
     fund_liq_pref |-> v.fund_liq_pref,
     fund_pro_rata |-> v.fund_pro_rata,
     liq_pref_applies |-> v.liq_pref_applies,
     fund_gross_proceeds |-> v.fund_gross_proceeds,
     total_management_fees |-> v.total_management_fees,
     fund_net_proceeds |-> v.fund_net_proceeds,
     fund_return_of_capital |-> v.fund_return_of_capital,
     fund_profit |-> v.fund_profit,
     total_lp_profit_share |-> v.total_lp_profit_share,
     total_gp_carry |-> v.total_gp_carry,
     total_lp_distributions |-> v.total_lp_distributions,
     investor_fund_pct |-> v.investor_fund_pct,
     investor_return_of_capital |-> v.investor_return_of_capital,
     investor_profit_share |-> v.investor_profit_share,
     investor_total |-> v.investor_total,
     investor_moic |-> v.investor_moic,
     irr |-> v.irr]

\* lines 168-210: the investor's share of what the fund distributes, and
\* the dictionary returned
investor_level(v) == return(moic_and_irr(investor_share(lp_distributions(v))))

\* lines 156-165: if fund_net_proceeds >= fund_size: ... else: ...
fund_level(v) ==
    IF FGe(v.fund_net_proceeds, v.fund_size)
    THEN investor_level(profit_split(capital_and_profit(v)))
    ELSE investor_level(no_profit(v))

\* lines 134-153
fund_share(v) ==
    net_of_fees(cap_and_fees(greater_of_liq_pref_or_pro_rata(pro_rata(
        proceeds_and_liq_pref(v)))))

\* a division by zero at line 122 or 125 ends the call with the exception;
\* nothing after them can raise
after_divisions(v) ==
    IF v.fund_ownership_pct = ZeroDivisionError
       \/ v.investor_fund_pct = ZeroDivisionError
    THEN ZeroDivisionError
    ELSE fund_level(fund_share(v))

calculate_waterfall(fund_size, investor_contribution, sale_price, carve_out_pct_, holding_period_, post_money_val) ==
    after_divisions(ownership_and_carve_out(
        [fund_size |-> fund_size,
         investor_contribution |-> investor_contribution,
         sale_price |-> sale_price,
         carve_out_pct |-> carve_out_pct_,
         holding_period |-> holding_period_,
         post_money_val |-> post_money_val,
         fund_ownership_pct |-> Unbound,
         investor_fund_pct |-> Unbound,
         carve_out_amount |-> Unbound,
         net_proceeds |-> Unbound,
         fund_liq_pref |-> Unbound,
         fund_pro_rata |-> Unbound,
         liq_pref_applies |-> Unbound,
         fund_gross_proceeds |-> Unbound,
         total_management_fees |-> Unbound,
         fund_net_proceeds |-> Unbound,
         fund_return_of_capital |-> Unbound,
         fund_profit |-> Unbound,
         total_lp_profit_share |-> Unbound,
         total_gp_carry |-> Unbound,
         total_lp_distributions |-> Unbound,
         investor_return_of_capital |-> Unbound,
         investor_profit_share |-> Unbound,
         investor_total |-> Unbound,
         investor_moic |-> Unbound,
         irr |-> Unbound]))

investor_contribution == FMul(investor_contribution_mm, FromInt(Million))
sale_price == sale_price_mm * Million

\* calculate_waterfall(FUND_SIZE, investor_contribution, exit, carve_out_pct,
\*                     holding_period, POST_MONEY_VALUATION)
WaterfallAt(exit) ==
    calculate_waterfall(FromInt(FUND_SIZE), investor_contribution,
                        FromInt(exit), carve_out_pct, holding_period,
                        FromInt(POST_MONEY_VALUATION))

\* len(range(start, stop, step)) and its i-th element, i from 1
RangeLen(start, stop, step) ==
    IF stop <= start THEN 0 ELSE (stop - start + step - 1) \div step
RangeAt(start, step, i) == start + (i - 1) * step

SweepStart == 25000000
SweepStop  == 1050000000
SweepStep_ == 25000000
exit_values == [i \in 1..RangeLen(SweepStart, SweepStop, SweepStep_) |->
                   RangeAt(SweepStart, SweepStep_, i)]

ScanStart == 5000000
ScanStop  == 1100000000
ScanStep_ == 5000000
ScanLen == RangeLen(ScanStart, ScanStop, ScanStep_)
ScanAt(i) == RangeAt(ScanStart, ScanStep_, i)

thresholds == << FromInt(1), Dec(15, 10), FromInt(2), FromInt(3), FromInt(5) >>

\* line 213
RunCalculations ==
    /\ pc = "calc"
    /\ results' = WaterfallAt(sale_price)
    /\ pc' = IF results'.kind = "result" THEN "sweep" ELSE "error"
    /\ UNCHANGED << FUND_SIZE, POST_MONEY_VALUATION, investor_contribution_mm,
                    holding_period, sale_price_mm, carve_out_pct, r, moics,
                    irrs, net_proceeds_list, info, target_i, scan_i,
                    threshold_results >>

\* r['irr'] * 100 if r['irr'] is not None else 0
IrrPoint(res) == IF res.irr # None THEN Times100(res.irr) ELSE ZeroRate

\* the loop body calling calculate_waterfall with sale_price, not exit_val
SweepStepAtSelection ==
    /\ pc = "sweep"
    /\ Len(moics) < Len(exit_values)
    /\ r' = WaterfallAt(sale_price)
    /\ moics' = Append(moics, r'.investor_moic)
    /\ irrs' = Append(irrs, IrrPoint(r'))
    /\ net_proceeds_list' = Append(net_proceeds_list, r'.investor_total)
    /\ UNCHANGED << FUND_SIZE, POST_MONEY_VALUATION, investor_contribution_mm,
                    holding_period, sale_price_mm, carve_out_pct, pc, results,
                    info, target_i, scan_i, threshold_results >>

\* one iteration of "for exit_val in exit_values"
SweepStep ==
    /\ pc = "sweep"
    /\ Len(moics) < Len(exit_values)
    /\ r' = WaterfallAt(exit_values[Len(moics) + 1])
    /\ moics' = Append(moics, r'.investor_moic)
    /\ irrs' = Append(irrs, IrrPoint(r'))
    /\ net_proceeds_list' = Append(net_proceeds_list, r'.investor_total)
    /\ UNCHANGED << FUND_SIZE, POST_MONEY_VALUATION, investor_contribution_mm,
                    holding_period, sale_price_mm, carve_out_pct, pc, results,
                    info, target_i, scan_i, threshold_results >>

\* "if results['irr']": None and 0.0 are both false
Truthy(rate) == rate # None /\ rate.sgn # 0

\* st.info(f"... {moic:.2f}x MOIC, {irr*100:.1f}% IRR" if results['irr']
\*         else f"... {moic:.2f}x MOIC")
SelectionLine(res) ==
    IF Truthy(res.irr)
    THEN [exit |-> sale_price, moic |-> res.investor_moic, shows_irr |-> TRUE,
          irr_pct |-> Times100(res.irr)]
    ELSE [exit |-> sale_price, moic |-> res.investor_moic, shows_irr |-> FALSE,
          irr_pct |-> None]

CurrentSelection ==
    /\ pc = "sweep"
    /\ Len(moics) = Len(exit_values)
    /\ info' = SelectionLine(results)
    /\ pc' = "thresholds"
    /\ UNCHANGED << FUND_SIZE, POST_MONEY_VALUATION, investor_contribution_mm,
                    holding_period, sale_price_mm, carve_out_pct, results, r,
                    moics, irrs, net_proceeds_list, target_i, scan_i,
                    threshold_results >>

\* r['investor_moic'] <= target_moic
ReachesAtMost(res, target_moic) == FLe(res.investor_moic, target_moic)

\* r['investor_moic'] >= target_moic
Reaches(res, target_moic) == FGe(res.investor_moic, target_moic)

\* 'Required Exit': f"${exit_val/1e6:.0f}M" -- the number printed; the exit
\* values of the range are whole multiples of a million
RequiredExit(exit_val) == exit_val \div Million

NextTarget ==
    /\ target_i' = target_i + 1
    /\ scan_i' = 1
    /\ pc' = IF target_i = Len(thresholds) THEN "done" ELSE "thresholds"

\* one step of the search for thresholds[target_i]: an iteration of
\* "for exit_val in range(5_000_000, 1_100_000_000, 5_000_000)" with its
\* break, or, the range exhausted, the "if not found" after the loop
ScanStep ==
    /\ pc = "thresholds"
    /\ IF scan_i <= ScanLen
       THEN /\ r' = WaterfallAt(ScanAt(scan_i))
            /\ IF Reaches(r', thresholds[target_i])
               THEN /\ threshold_results' = Append(threshold_results,
                           [target |-> thresholds[target_i], found |-> TRUE,
                            required_exit |-> RequiredExit(ScanAt(scan_i))])
                    /\ NextTarget
               ELSE /\ scan_i' = scan_i + 1
                    /\ UNCHANGED << threshold_results, target_i, pc >>
       ELSE /\ threshold_results' = Append(threshold_results,
                   [target |-> thresholds[target_i], found |-> FALSE,
                    required_exit |-> 0])
            /\ NextTarget
            /\ UNCHANGED r
    /\ UNCHANGED << FUND_SIZE, POST_MONEY_VALUATION, investor_contribution_mm,
                    holding_period, sale_price_mm, carve_out_pct, results,
                    moics, irrs, net_proceeds_list, info >>

Start ==
    /\ pc = "calc"
    /\ results = Unset
    /\ r = Unset
    /\ moics = << >>
    /\ irrs = << >>
    /\ net_proceeds_list = << >>
    /\ info = Unset
    /\ target_i = 1
    /\ scan_i = 1
    /\ threshold_results = << >>

Years == {1, MaxHoldingPeriod}

\* the module constants of lines 54-55 and values the widgets of lines
\* 70-113 can return
Init ==
    /\ FUND_SIZE = 10000000
    /\ POST_MONEY_VALUATION = 82000000
    /\ investor_contribution_mm \in {FromInt(2), FromInt(7)}
    /\ holding_period \in Years
    /\ sale_price_mm \in {200, 260}
    /\ carve_out_pct \in {FromInt(10), FromInt(15)}
    /\ Start

Next ==
    \/ RunCalculations
    \/ SweepStep
    \/ CurrentSelection
    \/ ScanStep

Spec == Init /\ [][Next]_vars

(***************************************************************************)
(* calculate_waterfall on its own: one call per parameter set, the sets    *)
(* drawn from within and from outside the documented domain.               *)
(***************************************************************************)
InitFn ==
    /\ FUND_SIZE \in {-10000000, 0, 10000000, 250000000}
    /\ POST_MONEY_VALUATION \in {0, 82000000, 100000000}
    /\ investor_contribution_mm \in {Zero, Dec(1, 100), FromInt(2), FromInt(12)}
    /\ holding_period \in 0..MaxCallYears
    /\ sale_price_mm \in {0, 1, 15, 195, 200, 255, 1000}
    /\ carve_out_pct \in {Zero, FromInt(10), FromInt(100)}
    /\ Start

NextFn == RunCalculations

SpecFn == InitFn /\ [][NextFn]_vars

(***************************************************************************)
(* Properties                                                              *)
(***************************************************************************)
\* the documented domain of the parameters
ValidParams ==
    /\ FUND_SIZE > 0
    /\ POST_MONEY_VALUATION > 0
    /\ FGt(investor_contribution, Zero)
    /\ FLe(investor_contribution, FromInt(FUND_SIZE))
    /\ holding_period >= 1
    /\ FGe(carve_out_pct, Zero)
    /\ FLt(carve_out_pct, HUNDRED)

Returned == results.kind = "result"

SweepDone == Len(moics) = Len(exit_values)

\* C1: calls of calculate_waterfall that differ only in sale_price, the
\* parameters valid: the larger sale_price never gives the smaller
\* investor_moic.  The calls are those of the sweep, whose exit values rise
\* through the 200,000,000 carve-out limit and through the switch from the
\* liquidation preference to the pro-rata share.
MoicMonotone ==
    ValidParams =>
        \A i \in DOMAIN moics : \A j \in DOMAIN moics :
            i < j => FLe(moics[i], moics[j])

\* the sweep is complete, and between 175M and 200M the carve-out ends, the
\* liquidation preference gives way to the pro-rata share and the MOIC rises
MoicMonotoneWitness ==
    /\ ValidParams
    /\ SweepDone
    /\ exit_values[7] < 200000000
    /\ exit_values[8] >= 200000000
    /\ FLt(moics[7], moics[8])
    /\ WaterfallAt(exit_values[7]).liq_pref_applies
    /\ ~WaterfallAt(exit_values[8]).liq_pref_applies

\* C2: every row of the threshold table is for its target; a row with an exit
\* value names an exit value of the scanned range whose investor_moic is >=
\* the target, every scanned exit value below it having investor_moic <
\* target; a "not found" row means that no exit value of the range has
\* investor_moic >= target.
FirstQualifyingExit ==
    pc = "done" =>
        /\ Len(threshold_results) = Len(thresholds)
        /\ \A k \in DOMAIN threshold_results :
            /\ threshold_results[k].target = thresholds[k]
            /\ threshold_results[k].found =>
                 \E j \in 1..ScanLen :
                    /\ RequiredExit(ScanAt(j)) = threshold_results[k].required_exit
                    /\ FGe(WaterfallAt(ScanAt(j)).investor_moic, thresholds[k])
                    /\ \A i \in 1..(j - 1) :
                          FLt(WaterfallAt(ScanAt(i)).investor_moic, thresholds[k])
            /\ ~threshold_results[k].found =>
                 \A j \in 1..ScanLen :
                    FLt(WaterfallAt(ScanAt(j)).investor_moic, thresholds[k])

\* a finished table with every target reached: 1.0x at 15M, the third exit
\* value scanned, the one before it falling short, and 5.0x only after more
\* than fifty exit values
FirstQualifyingExitWitness ==
    /\ pc = "done"
    /\ \A k \in DOMAIN threshold_results : threshold_results[k].found
    /\ threshold_results[1].required_exit = RequiredExit(ScanAt(3))
    /\ FLt(WaterfallAt(ScanAt(2)).investor_moic, thresholds[1])
    /\ threshold_results[5].required_exit > RequiredExit(ScanAt(50))

\* C3: each iteration of the sweep takes the next exit value in order, its
\* result is what calculate_waterfall returns for the base parameters with
\* that exit value as sale_price, the lists get that result's fields as
\* their next element, and the base parameters and the base result stay as
\* they were; after the sweep there is one element per exit value.
SweepPointwise ==
    /\ [](pc \in {"thresholds", "done"} =>
             /\ SweepDone
             /\ Len(irrs) = Len(exit_values)
             /\ Len(net_proceeds_list) = Len(exit_values))
    /\ [][(pc = "sweep" /\ pc' = "sweep") =>
             /\ Len(moics) < Len(exit_values)
             /\ r' = WaterfallAt(exit_values[Len(moics) + 1])
             /\ moics' =
                  Append(moics,
                         WaterfallAt(exit_values[Len(moics) + 1]).investor_moic)
             /\ net_proceeds_list' =
                  Append(net_proceeds_list,
                         WaterfallAt(exit_values[Len(moics) + 1]).investor_total)
             /\ Len(irrs') = Len(moics')
             /\ UNCHANGED << FUND_SIZE, POST_MONEY_VALUATION,
                             investor_contribution_mm, holding_period,
                             sale_price_mm, carve_out_pct, results >>]_vars

\* the sweep has run to its last exit value, which is not the selected one
SweepPointwiseWitness ==
    /\ pc = "sweep"
    /\ SweepDone
    /\ Len(moics) = 41
    /\ r = WaterfallAt(1025000000)
    /\ r # results
    /\ moics[41] = r.investor_moic
    /\ FLt(moics[1], moics[41])

\* C5: a call with a parameter set outside the documented domain ends in an
\* invalid-parameter error and returns no result record.
InvalidParamsRejected ==
    (pc # "calc" /\ ~ValidParams) =>
        /\ results.kind # "result"
        /\ results.kind = "InvalidParameterError"

\* C6: for valid parameters every result has fund_gross_proceeds <=
\* net_proceeds.
GrossCappedAtNet ==
    (Returned /\ ValidParams) =>
        FLe(results.fund_gross_proceeds, results.net_proceeds)

\* the liquidation preference and the pro-rata amount both exceed net_proceeds
GrossCappedAtNetWitness ==
    /\ Returned
    /\ ValidParams
    /\ FGt(results.net_proceeds, Zero)
    /\ FGt(results.fund_liq_pref, results.net_proceeds)
    /\ FGt(results.fund_pro_rata, results.net_proceeds)
    /\ FCmp(results.fund_gross_proceeds, results.net_proceeds) = 0

\* C7: in every result, fund_liq_pref >= fund_pro_rata makes liq_pref_applies
\* true and fund_gross_proceeds the smaller of fund_liq_pref and
\* net_proceeds, and liq_pref_applies is false only with fund_pro_rata
\* strictly above fund_liq_pref.
LiqPrefTieBreak ==
    Returned =>
        /\ FGe(results.fund_liq_pref, results.fund_pro_rata) =>
              /\ results.liq_pref_applies = TRUE
              /\ FCmp(results.fund_gross_proceeds,
                      IF FLt(results.net_proceeds, results.fund_liq_pref)
                      THEN results.net_proceeds
                      ELSE results.fund_liq_pref) = 0
        /\ results.liq_pref_applies = FALSE =>
              FGt(results.fund_pro_rata, results.fund_liq_pref)

\* the liquidation preference and the pro-rata amount are equal, and not zero
LiqPrefTieBreakWitness ==
    /\ Returned
    /\ ValidParams
    /\ FGt(results.fund_pro_rata, Zero)
    /\ FCmp(results.fund_liq_pref, results.fund_pro_rata) = 0
    /\ results.liq_pref_applies = TRUE

\* C8 as stated: in every result total_lp_distributions is
\* fund_return_of_capital + total_lp_profit_share and total_gp_carry +
\* total_lp_profit_share is fund_profit, both exactly.
SplitSumsExact ==
    Returned =>
        /\ FCmp(results.total_lp_distributions,
                FAdd(results.fund_return_of_capital,
                     results.total_lp_profit_share)) = 0
        /\ FCmp(FAdd(results.total_gp_carry, results.total_lp_profit_share),
                results.fund_profit) = 0

\* 2^-51, twice the spacing of the floats at 1
TwoEpsilon == [FromInt(1) EXCEPT !.exp = @ - 51]

FAbs(x) == IF IsZero(x) THEN x ELSE [x EXCEPT !.sign = 0]

\* C8: in every result total_lp_distributions is exactly
\* fund_return_of_capital + total_lp_profit_share, and total_gp_carry +
\* total_lp_profit_share differs from fund_profit by at most fund_profit *
\* 2^-51, and by nothing where there is no profit.
SplitSumsWithinRounding ==
    Returned =>
        /\ FCmp(results.total_lp_distributions,
                FAdd(results.fund_return_of_capital,
                     results.total_lp_profit_share)) = 0
        /\ FLe(FAbs(FSub(FAdd(results.total_gp_carry,
                              results.total_lp_profit_share),
                         results.fund_profit)),
               FMul(FAbs(results.fund_profit), TwoEpsilon))

\* a result with a profit whose two shares do not add up to it
SplitSumsWithinRoundingWitness ==
    /\ Returned
    /\ ValidParams
    /\ FGt(results.fund_profit, Zero)
    /\ FCmp(FAdd(results.total_gp_carry, results.total_lp_profit_share),
            results.fund_profit) # 0

\* C9: a result with fund_net_proceeds below fund_size has fund_profit,
\* total_lp_profit_share and total_gp_carry 0 and fund_return_of_capital
\* max(fund_net_proceeds, 0); with fees above the gross proceeds its return
\* of capital, investor_total and investor_moic are 0.
NoProfitBelowFundSize ==
    (Returned /\ FLt(results.fund_net_proceeds, FromInt(FUND_SIZE))) =>
        /\ results.fund_profit = Zero
        /\ results.total_lp_profit_share = Zero
        /\ results.total_gp_carry = Zero
        /\ results.fund_return_of_capital =
              (IF FGt(results.fund_net_proceeds, Zero)
               THEN results.fund_net_proceeds ELSE Zero)
        /\ FGt(results.total_management_fees, results.fund_gross_proceeds) =>
              /\ results.fund_return_of_capital = Zero
              /\ results.total_lp_distributions = Zero
              /\ results.investor_total = Zero
              /\ results.investor_moic = Zero

\* fees above gross proceeds that are not zero
NoProfitBelowFundSizeWitness ==
    /\ Returned
    /\ ValidParams
    /\ FGt(results.fund_gross_proceeds, Zero)
    /\ FGt(results.total_management_fees, results.fund_gross_proceeds)
    /\ FLt(results.fund_net_proceeds, Zero)
    /\ results.investor_moic = Zero

\* C10: a call with valid parameters returns a result; when its
\* investor_total is 0 the cash flows are -investor_contribution followed by
\* holding_period zeros, investor_moic is 0 and irr is None.
TotalLoss ==
    (pc # "calc" /\ ValidParams) =>
        /\ Returned
        /\ results.investor_total = Zero =>
              /\ cash_flows(investor_contribution, holding_period,
                            results.investor_total)
                   = << FNeg(investor_contribution) >>
                     \o [i \in 1..holding_period |-> Zero]
              /\ Len(cash_flows(investor_contribution, holding_period,
                                results.investor_total)) = holding_period + 1
              /\ results.investor_moic = Zero
              /\ results.irr = None

\* a total loss over more than one year, after proceeds that the fees consume
TotalLossWitness ==
    /\ Returned
    /\ ValidParams
    /\ holding_period >= 2
    /\ sale_price > 0
    /\ results.investor_total = Zero
    /\ results.irr = None
====
